---------------------------- MODULE Spec2Model ----------------------------
(***************************************************************************)
(* Model of djcelery_transactions.py: PostCommitTask.apply_async defers a  *)
(* Celery task on a thread-local queue while a transaction is managed, and *)
(* PostCommitTaskMiddleware discards (process_exception) or dispatches     *)
(* (process_response) the queued tasks when the view ends.                 *)
(*                                                                         *)
(* A "flow" is one request handled on one thread; it ends with one of the  *)
(* two hooks.  The transport (celery's Task.apply_async) and django's      *)
(* transaction.is_managed() are the environment: is_managed() is an input  *)
(* of every call, the transport either returns a result or raises.         *)
(***************************************************************************)
EXTENDS Integers, Sequences, FiniteSets

\* ------------------------------------------------------------------ bounds
MaxFlows == 3       \* requests handled, all threads together
MaxSubmits == 2     \* apply_async calls made by views, all threads together
MaxRaises == 1      \* transport calls that raise, all threads together

\* ------------------------------------------------------------- environment
\* The thread that imported the module, and another request-handling thread.
Threads == {"loader", "worker"}
LoaderThread == "loader"

\* What a view passes to apply_async: the task class, *args, and the keys of
\* **kwargs other than after_transaction.
Calls ==
    { [cls |-> "X", args |-> <<1>>, kwargs |-> {}],
      [cls |-> "Y", args |-> <<2>>, kwargs |-> {"countdown"}] }

\* The after_transaction keyword of a call: not given, True or False.
AfterTransactionArgs == {"absent", "True", "False"}

\* The response objects a view hands to process_response.
Responses == {"response_a", "response_b"}

\* What the transport does with a call: return a result, or raise.
TransportOutcomes == {"AsyncResult", "DispatchError"}

VARIABLES
    thread_data,   \* thread_data[t]: the attributes of _thread_data seen by thread t
    pc,            \* pc[t]: "idle", "view" (the view runs), "response" (in process_response)
    flow,          \* flow[t]: number of requests thread t has started
    sub,           \* history: sub[t][n] is the n-th apply_async call made by a view on t
    sent,          \* history: sent[t] is the calls thread t made to the transport, in order
    discarded,     \* history: the items process_exception dropped from a queue
    response,      \* response[t]: the response argument of the running process_response
    last           \* last[t]: the last call made on thread t, its inputs and its outcome

vars == <<thread_data, pc, flow, sub, sent, discarded, response, last>>

\* ----------------------------------------------------------- thread-local
\* _thread_data = threading.local(); _thread_data.task_queue = []
\* The assignment runs once, in the importing thread: only that thread has
\* the attribute.
thread_data_init(t) ==
    [has_task_queue |-> (t = LoaderThread), task_queue |-> <<>>]

\* A module-level global instead of a threading.local: every thread sees the
\* assignment.
global_set(data, t, d) == [u \in DOMAIN data |-> d]

\* Assigning the attributes of a threading.local in thread t changes what
\* thread t sees, and nothing of what the other threads see.
local_set(data, t, d) == [data EXCEPT ![t] = d]

\* The items queued on thread t (none while the attribute is not set).
task_queue(t) == thread_data[t].task_queue

\* q[-1] in place of q.pop(): the element is read and stays in the list.
list_pop_peek(q) ==
    [item |-> q[Len(q)], rest |-> q]

\* A pop that also drops the element before the one it returns.
list_pop_two(q) ==
    [item |-> q[Len(q)], rest |-> SubSeq(q, 1, Len(q) - 2)]

\* list.pop(): removes and returns the LAST element.
list_pop(q) ==
    [item |-> q[Len(q)], rest |-> SubSeq(q, 1, Len(q) - 1)]

\* ------------------------------------------------------------ apply_async
\* The keyword is dropped and its value ignored.
kwargs_pop_ignored(at) == TRUE

\* kwargs.pop("after_transaction", True)
kwargs_pop(at) == IF at = "absent" THEN TRUE ELSE at = "True"

\* **kwargs as apply_async receives it: the caller's other keys, and the
\* after_transaction key when the caller gives it.
call_kwargs(kwargs, at) ==
    kwargs \cup (IF at = "absent" THEN {} ELSE {"after_transaction"})

\* The key is read and left in kwargs.
kwargs_rest_kept(kwargs) == kwargs

\* kwargs after kwargs.pop("after_transaction", True): the key is removed.
kwargs_rest(kwargs) == kwargs \ {"after_transaction"}

\* "or" in place of "and".
defer_task_or(after_transaction, managed) == after_transaction \/ managed

\* defer_task = after_transaction and transaction.is_managed()
defer_task(after_transaction, managed) == after_transaction /\ managed

\* super(PostCommitTask, cls).apply_async(*args, **kwargs): one call of the
\* transport, recorded with the flow that made it and the way it was reached.
transport_call(f, item, via, outcome) ==
    [item |-> item, f |-> f, via |-> via, outcome |-> outcome]

\* PostCommitTask.apply_async(*args, **kwargs) called in flow f of a thread
\* whose thread-local data is d and whose transport log is s: the new data,
\* the new log, and how the call ends (kind "return" or "raise", and the value).
\* item carries cls, args and kwargs as received; (cls, args, kwargs) is
\* queued or passed on with kwargs as the pop left it.
apply_async(d, s, f, item, at, managed, via, outcome) ==
    LET task == [item EXCEPT !.kwargs = kwargs_rest(@)]
    IN IF defer_task(kwargs_pop(at), managed)
       THEN IF d.has_task_queue
            THEN [data |-> [d EXCEPT !.task_queue = Append(@, task)],
                  sent |-> s, kind |-> "return", val |-> "None"]
            ELSE [data |-> d, sent |-> s, kind |-> "raise", val |-> "AttributeError"]
       ELSE [data |-> d,
             sent |-> Append(s, transport_call(f, task, via, outcome)),
             kind |-> IF outcome = "DispatchError" THEN "raise" ELSE "return",
             val |-> outcome]

RECURSIVE Sum(_, _)
Sum(f, S) == IF S = {} THEN 0
             ELSE LET x == CHOOSE y \in S : TRUE IN f[x] + Sum(f, S \ {x})

Raises ==
    Sum([t \in Threads |->
            Cardinality({i \in 1..Len(sent[t]) : sent[t][i].outcome = "DispatchError"})],
        Threads)

Flows == Sum(flow, Threads)
Submits == Sum([t \in Threads |-> Len(sub[t])], Threads)

\* The transport outcomes still allowed by MaxRaises.
Outcomes == IF Raises < MaxRaises THEN TransportOutcomes ELSE {"AsyncResult"}

Call(op, t, id, at, managed, kind, val) ==
    [op |-> op, t |-> t, f |-> flow[t], id |-> id, at |-> at,
     managed |-> managed, kind |-> kind, val |-> val]

\* ------------------------------------------------------------------- Init
Init ==
    /\ thread_data = [t \in Threads |-> thread_data_init(t)]
    /\ pc = [t \in Threads |-> "idle"]
    /\ flow = [t \in Threads |-> 0]
    /\ sub = [t \in Threads |-> <<>>]
    /\ sent = [t \in Threads |-> <<>>]
    /\ discarded = {}
    /\ response = [t \in Threads |-> "none"]
    /\ last = [t \in Threads |-> Call("none", t, 0, "absent", FALSE, "return", "None")]

\* ---------------------------------------------------------------- actions
\* The framework starts handling a request on thread t.
BeginFlow(t) ==
    /\ pc[t] = "idle"
    /\ Flows < MaxFlows
    /\ flow' = [flow EXCEPT ![t] = @ + 1]
    /\ pc' = [pc EXCEPT ![t] = "view"]
    /\ last' = [last EXCEPT ![t] =
                    [Call("request", t, 0, "absent", FALSE, "return", "None")
                        EXCEPT !.f = flow[t] + 1]]
    /\ UNCHANGED <<thread_data, sub, sent, discarded, response>>

\* The view running on thread t calls apply_async.
Submit(t) ==
    /\ pc[t] = "view"
    /\ Submits < MaxSubmits
    /\ \E c \in Calls, at \in AfterTransactionArgs, managed \in BOOLEAN,
          outcome \in Outcomes :
         LET id == Len(sub[t]) + 1
             item == [t |-> t, id |-> id, f |-> flow[t],
                      cls |-> c.cls, args |-> c.args, kwargs |-> c.kwargs]
             r == apply_async(thread_data[t], sent[t], flow[t],
                              [item EXCEPT !.kwargs = call_kwargs(@, at)],
                              at, managed, "apply_async", outcome)
         IN /\ thread_data' = local_set(thread_data, t, r.data)
            /\ sent' = [sent EXCEPT ![t] = r.sent]
            /\ sub' = [sub EXCEPT ![t] =
                          Append(@, [item |-> item,
                                     deferred |-> r.data # thread_data[t]])]
            /\ last' = [last EXCEPT ![t] =
                            Call("apply_async", t, id, at, managed, r.kind, r.val)]
    /\ UNCHANGED <<pc, flow, discarded, response>>

\* The hook leaves the queued items where they are.
keep_task_queue(d) == [d EXCEPT !.has_task_queue = TRUE]

\* _thread_data.task_queue = []: the attribute is set to a new empty list.
reset_task_queue(d) == [has_task_queue |-> TRUE, task_queue |-> <<>>]

\* PostCommitTaskMiddleware.process_exception: the view raised, the hook
\* resets the queue and the flow ends.
process_exception(t) ==
    /\ pc[t] = "view"
    /\ thread_data' = local_set(thread_data, t, reset_task_queue(thread_data[t]))
    /\ pc' = [pc EXCEPT ![t] = "idle"]
    /\ discarded' = discarded \cup {task_queue(t)[i] : i \in 1..Len(task_queue(t))}
    /\ last' = [last EXCEPT ![t] =
                    Call("process_exception", t, 0, "absent", FALSE, "return", "None")]
    /\ UNCHANGED <<flow, sub, sent, response>>

\* process_response calling apply_async without the keyword.
response_after_transaction_default == "absent"

\* The keyword process_response passes: after_transaction=False.
response_after_transaction == "False"

\* The loop wrapped in try/except: a raising call is swallowed and the loop
\* goes on.
after_dispatch_swallow(kind) == "response"

\* Where process_response is after the call of apply_async: the loop has no
\* try/except, so a raise leaves the hook; otherwise the loop test is next.
after_dispatch(kind) == IF kind = "raise" THEN "idle" ELSE "response"

\* The response argument of process_response on thread t: given by the
\* framework when the hook is entered, the same until the hook ends.
ResponseArgs(t) == IF pc[t] = "view" THEN Responses ELSE {response[t]}

\* A hook that returns None.
process_response_result_none(resp) == "None"

\* return response
process_response_result(resp) == resp

\* PostCommitTaskMiddleware.process_response, one iteration of the loop:
\* pop an item and call apply_async on it.  A raise ends the hook.
process_response_pop(t) ==
    /\ pc[t] \in {"view", "response"}
    /\ thread_data[t].has_task_queue
    /\ Len(task_queue(t)) > 0
    /\ \E managed \in BOOLEAN, outcome \in Outcomes, resp \in ResponseArgs(t) :
         LET p == list_pop(task_queue(t))
             popped == [thread_data[t] EXCEPT !.task_queue = p.rest]
             r == apply_async(popped, sent[t], flow[t],
                              [p.item EXCEPT !.kwargs =
                                  call_kwargs(@, response_after_transaction)],
                              response_after_transaction, managed,
                              "process_response", outcome)
         IN /\ thread_data' = local_set(thread_data, t, r.data)
            /\ sent' = [sent EXCEPT ![t] = r.sent]
            /\ pc' = [pc EXCEPT ![t] = after_dispatch(r.kind)]
            /\ response' = [response EXCEPT ![t] =
                                IF after_dispatch(r.kind) = "idle" THEN "none" ELSE resp]
            /\ last' = [last EXCEPT ![t] =
                            Call("process_response", t, p.item.id,
                                 response_after_transaction, managed, r.kind, r.val)]
    /\ UNCHANGED <<flow, sub, discarded>>

\* process_response, the loop test fails: return response.
process_response_return(t) ==
    /\ pc[t] \in {"view", "response"}
    /\ thread_data[t].has_task_queue
    /\ Len(task_queue(t)) = 0
    /\ pc' = [pc EXCEPT ![t] = "idle"]
    /\ \E resp \in ResponseArgs(t) :
         last' = [last EXCEPT ![t] =
                     Call("process_response", t, 0, "absent", FALSE, "return",
                          process_response_result(resp))]
    /\ response' = [response EXCEPT ![t] = "none"]
    /\ UNCHANGED <<thread_data, flow, sub, sent, discarded>>

\* process_response on a thread where _thread_data has no task_queue:
\* the loop test raises AttributeError.
process_response_unset(t) ==
    /\ pc[t] \in {"view", "response"}
    /\ ~thread_data[t].has_task_queue
    /\ pc' = [pc EXCEPT ![t] = "idle"]
    /\ last' = [last EXCEPT ![t] =
                    Call("process_response", t, 0, "absent", FALSE, "raise", "AttributeError")]
    /\ UNCHANGED <<thread_data, flow, sub, sent, discarded, response>>

Next ==
    \E t \in Threads :
        \/ BeginFlow(t)
        \/ Submit(t)
        \/ process_exception(t)
        \/ process_response_pop(t)
        \/ process_response_return(t)
        \/ process_response_unset(t)

Spec == Init /\ [][Next]_vars

\* A thread that is inside process_response goes on running it: the loop
\* test, the pop and the call are plain synchronous code.
HookStep(t) ==
    /\ pc[t] = "response"
    /\ (process_response_pop(t) \/ process_response_return(t))

SpecFair == Spec /\ \A t \in Threads : WF_vars(HookStep(t))


\* ------------------------------------------------------------ vocabulary
Items(q) == {q[i] : i \in 1..Len(q)}

\* The items thread t handed to the transport.
SentItems(t) == {sent[t][i].item : i \in 1..Len(sent[t])}

\* How many transport calls, over all threads, carry the item.
TotalCount(it) ==
    Sum([t \in Threads |-> Cardinality({i \in 1..Len(sent[t]) : sent[t][i].item = it})],
        Threads)

\* The items flow f of thread t put on the queue.
DeferredIn(t, f) ==
    {sub[t][n].item : n \in {m \in 1..Len(sub[t]) :
                                sub[t][m].deferred /\ sub[t][m].item.f = f}}

\* The step is a call made on thread t.
StepBy(t) == last'[t] # last[t]

\* The position of the item in the transport log of thread t (0: not there).
SentAt(t, it) ==
    IF it \in SentItems(t)
    THEN CHOOSE i \in 1..Len(sent[t]) : sent[t][i].item = it
    ELSE 0

NoDoubleDispatch ==
    \A t \in Threads : \A n \in 1..Len(sub[t]) : TotalCount(sub[t][n].item) <= 1

\* ----------------------------------------------------------------- claims
\* C1: items deferred in order item1..itemN in one flow are dispatched by
\* process_response in that order: of two items of one flow that the hook
\* dispatched, the one submitted first is in the transport log first.
C1_FifoDispatch ==
    \A t \in Threads : \A f \in 1..flow[t] :
        \A a, b \in DeferredIn(t, f) :
            (a.id < b.id /\ a \in SentItems(t) /\ b \in SentItems(t))
                => SentAt(t, a) < SentAt(t, b)

\* C2: once process_exception has fired for a flow, none of the items that
\* flow deferred is dispatched: the hook drops every item the flow deferred
\* and dispatches nothing, and a dropped item is never again in a queue or
\* in a transport log.
C2_DiscardedNeverDispatched ==
    /\ [](\A it \in discarded :
            \A u \in Threads : it \notin SentItems(u) /\ it \notin Items(task_queue(u)))
    /\ [][\A t \in Threads :
            (StepBy(t) /\ last'[t].op = "process_exception")
                => /\ DeferredIn(t, flow[t]) \subseteq discarded'
                   /\ sent' = sent]_vars

\* C2 witness: a flow deferred two items, process_exception dropped them, and
\* process_response of a later flow on the same thread has returned.
C2_Witness ==
    \E t \in Threads : \E f \in 1..flow[t] :
        /\ Cardinality(DeferredIn(t, f) \cap discarded) = 2
        /\ last[t].op = "process_response"
        /\ last[t].kind = "return"
        /\ last[t].f > f

\* C3: a submission made while is_managed() is true, with after_transaction
\* not False, appends the item to the queue of the calling thread, returns
\* None, and makes no transport call for the item.
C3_DeferredSubmitEnqueues ==
    \A t \in Threads :
        (last[t].op = "apply_async" /\ last[t].managed /\ last[t].at # "False")
            => /\ last[t].kind = "return"
               /\ last[t].val = "None"
               /\ Len(task_queue(t)) > 0
               /\ task_queue(t)[Len(task_queue(t))] = sub[t][last[t].id].item
               /\ TotalCount(sub[t][last[t].id].item) = 0

\* C4: when process_response returns, every item the flow deferred has been
\* handed to the transport exactly once, by this flow, and the queue of the
\* thread is empty; no item is ever handed to the transport twice.
C4_AllDispatchedOnce ==
    /\ NoDoubleDispatch
    /\ \A t \in Threads :
        (last[t].op = "process_response" /\ last[t].kind = "return" /\ last[t].id = 0)
            => /\ thread_data[t].task_queue = <<>>
               /\ \A it \in DeferredIn(t, last[t].f) :
                     /\ TotalCount(it) = 1
                     /\ sent[t][SentAt(t, it)].f = last[t].f
                     /\ sent[t][SentAt(t, it)].via = "process_response"

\* C4 witness: process_response has returned in a flow that deferred two items.
C4_Witness ==
    \E t \in Threads :
        /\ last[t].op = "process_response" /\ last[t].kind = "return" /\ last[t].id = 0
        /\ Cardinality(DeferredIn(t, last[t].f)) = 2

\* C5: a call made on one thread (a submit, or a step of either hook) leaves
\* the queue, the items and the transport log of every other thread as they
\* are; a queue only holds, and a thread only dispatches or discards, items
\* submitted on that thread.
C5_ThreadIsolation ==
    /\ [](\A t \in Threads :
            /\ \A it \in Items(task_queue(t)) \cup SentItems(t) : it.t = t
            /\ \A it \in discarded : it.t = t => it \notin SentItems(t))
    /\ [][\A t \in Threads : StepBy(t) =>
            \A u \in Threads \ {t} :
                /\ thread_data'[u] = thread_data[u]
                /\ sent'[u] = sent[u]
                /\ {it \in discarded' : it.t = u} = {it \in discarded : it.t = u}]_vars

\* C5 witness: one thread has just resolved a flow that deferred an item while
\* the view of a flow on the other thread holds a queued item.
C5_Witness ==
    \E t \in Threads : \E u \in Threads \ {t} :
        /\ last[t].op \in {"process_response", "process_exception"}
        /\ DeferredIn(t, last[t].f) # {}
        /\ pc[u] = "view"
        /\ Len(task_queue(u)) > 0

\* C6: in any thread, the first deferred submit and the first process_response
\* work on an empty queue created on first access: no call raises
\* AttributeError.
C6_QueueCreatedOnFirstAccess ==
    \A t \in Threads :
        last[t].op \in {"apply_async", "process_response"} => last[t].val # "AttributeError"

\* C7: the queue of a thread is empty whenever no flow runs on it (before a
\* flow starts, after its hook has ended), a queue only holds items of the
\* flow that is running, and a hook only dispatches or discards items of its
\* own flow.
C7_NoCrossFlowLeak ==
    \A t \in Threads :
        /\ pc[t] = "idle" => task_queue(t) = <<>>
        /\ \A it \in Items(task_queue(t)) : it.f = flow[t]
        /\ \A i \in 1..Len(sent[t]) : sent[t][i].f = sent[t][i].item.f

\* C8: a submission made while is_managed() is false, whatever the value of
\* after_transaction, calls the transport for the item once, inside the call,
\* ends as the transport call ends (returns its result), and leaves the
\* thread-local queue as it was.
C8_UnmanagedSubmitDispatches ==
    [][\A t \in Threads :
        (StepBy(t) /\ last'[t].op = "apply_async" /\ ~last'[t].managed)
            => LET it == sub'[t][last'[t].id].item
                   e == sent'[t][Len(sent'[t])]
               IN /\ thread_data' = thread_data
                  /\ Len(sent'[t]) = Len(sent[t]) + 1
                  /\ SubSeq(sent'[t], 1, Len(sent[t])) = sent[t]
                  /\ e.item = it /\ e.via = "apply_async" /\ e.f = flow[t]
                  /\ Cardinality({i \in 1..Len(sent'[t]) : sent'[t][i].item = it}) = 1
                  /\ last'[t].val = e.outcome
                  /\ last'[t].kind = IF e.outcome = "DispatchError" THEN "raise" ELSE "return"
                  /\ ~sub'[t][last'[t].id].deferred]_vars

\* C8 witness: a submit with after_transaction=True and is_managed() false has
\* returned the transport's result while the queue of the thread holds an item.
C8_Witness ==
    \E t \in Threads :
        /\ last[t].op = "apply_async" /\ ~last[t].managed /\ last[t].at = "True"
        /\ last[t].kind = "return" /\ last[t].val = "AsyncResult"
        /\ Len(task_queue(t)) > 0

\* C9: a submission with after_transaction=False made while is_managed() is
\* true calls the transport at once and leaves the queue exactly as it was;
\* process_response only dispatches items that were queued, so the item is
\* not dispatched again at resolution.
C9_OverrideDispatchesNow ==
    /\ [](/\ NoDoubleDispatch
          /\ \A t \in Threads : \A i \in 1..Len(sent[t]) :
                sent[t][i].via = "process_response"
                    => sub[t][sent[t][i].item.id].deferred)
    /\ [][\A t \in Threads :
            (StepBy(t) /\ last'[t].op = "apply_async"
                 /\ last'[t].managed /\ last'[t].at = "False")
                => /\ thread_data' = thread_data
                   /\ ~sub'[t][last'[t].id].deferred
                   /\ Len(sent'[t]) = Len(sent[t]) + 1
                   /\ sent'[t][Len(sent'[t])].item = sub'[t][last'[t].id].item
                   /\ sent'[t][Len(sent'[t])].via = "apply_async"]_vars

\* C9 witness: a submit with after_transaction=False under a managed
\* transaction has returned the transport's result while the queue of the
\* thread holds a deferred item of the same flow.
C9_Witness ==
    \E t \in Threads :
        /\ last[t].op = "apply_async" /\ last[t].managed /\ last[t].at = "False"
        /\ last[t].kind = "return" /\ last[t].val = "AsyncResult"
        /\ Len(task_queue(t)) > 0
        /\ sent[t][Len(sent[t])].item.id = last[t].id

\* C10: every iteration of process_response calls apply_async with
\* after_transaction=False: the popped item goes to the transport and the
\* queue is the queue without it, also when is_managed() is true.
C10_DrainNeverRedefers ==
    [][\A t \in Threads :
        (StepBy(t) /\ last'[t].op = "process_response" /\ last'[t].id # 0)
            => LET q == task_queue(t)
               IN /\ last'[t].at = "False"
                  /\ thread_data'[t].task_queue = SubSeq(q, 1, Len(q) - 1)
                  /\ Len(sent'[t]) = Len(sent[t]) + 1
                  /\ sent'[t][Len(sent'[t])].item = q[Len(q)]
                  /\ sent'[t][Len(sent'[t])].via = "process_response"
                  /\ q[Len(q)] \notin Items(thread_data'[t].task_queue)]_vars

\* C10 witness: process_response dispatched an item while is_managed() was true.
C10_Witness ==
    \E t \in Threads :
        /\ last[t].op = "process_response" /\ last[t].id # 0
        /\ last[t].managed
        /\ last[t].kind = "return"
        /\ sent[t][Len(sent[t])].item.id = last[t].id

\* C11: a hook called when the thread has no queued item (process_exception
\* or process_response) makes no transport call, raises nothing and leaves
\* an empty queue.
C11_EmptyHookNoOp ==
    [][\A t \in Threads :
        (StepBy(t) /\ last'[t].op \in {"process_exception", "process_response"}
             /\ Items(task_queue(t)) = {})
            => /\ sent' = sent
               /\ last'[t].kind = "return"
               /\ thread_data'[t].has_task_queue
               /\ thread_data'[t].task_queue = <<>>]_vars

\* C12: once the hook of a flow has ended, by returning or by raising, the
\* items the flow deferred have either all been handed to the transport or
\* none of them has.
C12_AllOrNothing ==
    \A t \in Threads : \A f \in 1..flow[t] :
        (f < flow[t] \/ pc[t] = "idle")
            => \/ DeferredIn(t, f) \cap SentItems(t) = {}
               \/ DeferredIn(t, f) \subseteq SentItems(t)

\* C13: when process_response returns, it returns the response object it was
\* given, whatever was queued; process_exception returns None.
C13_HooksPassThrough ==
    [][\A t \in Threads :
        /\ (StepBy(t) /\ last'[t].op = "process_response" /\ last'[t].id = 0
                /\ last'[t].kind = "return")
              => /\ last'[t].val \in ResponseArgs(t)
                 /\ pc[t] = "response" => last'[t].val = response[t]
        /\ (StepBy(t) /\ last'[t].op = "process_exception")
              => last'[t].kind = "return" /\ last'[t].val = "None"]_vars

\* C13 witness: process_response has returned response_b after dispatching
\* two queued items.
C13_Witness ==
    \E t \in Threads :
        /\ last[t].op = "process_response" /\ last[t].id = 0
        /\ last[t].kind = "return" /\ last[t].val = "response_b"
        /\ Cardinality({i \in 1..Len(sent[t]) :
                           sent[t][i].via = "process_response"
                               /\ sent[t][i].f = last[t].f}) = 2

\* C14: every submitted item is in exactly one of three places: the queue of
\* the thread that submitted it (once), the transport log (one call), or the
\* set of items process_exception dropped.
C14_Conservation ==
    \A t \in Threads : \A n \in 1..Len(sub[t]) :
        LET it == sub[t][n].item
            queued == Cardinality({i \in 1..Len(task_queue(t)) : task_queue(t)[i] = it})
            dropped == IF it \in discarded THEN 1 ELSE 0
        IN /\ queued + TotalCount(it) + dropped = 1
           /\ \A u \in Threads \ {t} : it \notin Items(task_queue(u))

\* The queue q without the item.
Without(q, it) == SelectSeq(q, LAMBDA x : x # it)

C16_PayloadFidelity ==
    \A t \in Threads :
        /\ \A i \in 1..Len(sent[t]) :
              LET it == sent[t][i].item
              IN /\ it.id \in 1..Len(sub[it.t])
                 /\ it = sub[it.t][it.id].item
                 /\ "after_transaction" \notin it.kwargs
        /\ \A i \in 1..Len(task_queue(t)) :
              LET it == task_queue(t)[i]
              IN /\ it.id \in 1..Len(sub[it.t])
                 /\ it = sub[it.t][it.id].item
                 /\ sub[it.t][it.id].deferred

\* C16 witness: process_response has handed Y((2,), countdown) to the
\* transport, and a submit made with after_transaction=False has handed its
\* item to the transport at once.
C16_Witness ==
    \E t \in Threads :
        /\ \E i \in 1..Len(sent[t]) :
              /\ sent[t][i].via = "process_response"
              /\ sent[t][i].item.cls = "Y" /\ sent[t][i].item.args = <<2>>
              /\ sent[t][i].item.kwargs = {"countdown"}
        /\ last[t].op = "apply_async" /\ last[t].at = "False"
        /\ sent[t][Len(sent[t])].item.id = last[t].id

\* The transport calls process_response made in flow f of thread t.
HookCalls(t, f) ==
    {i \in 1..Len(sent[t]) : sent[t][i].via = "process_response" /\ sent[t][i].f = f}

\* The items that were queued on thread t when the hook of its flow f began:
\* deferred on t, not dropped, not handed to the transport by an earlier flow.
QueuedAtHook(t, f) ==
    {it \in UNION {DeferredIn(t, g) : g \in 1..f} :
        /\ it \notin discarded
        /\ \A i \in 1..Len(sent[t]) : sent[t][i].item = it => sent[t][i].f >= f}

\* C17: every iteration of the loop of process_response makes one transport
\* call and leaves the queue one item shorter; the hook returns only on an
\* empty queue, after as many transport calls as items were queued when it
\* began; no thread stays inside the hook forever.
C17_DrainTerminates ==
    /\ [][\A t \in Threads :
            (StepBy(t) /\ last'[t].op = "process_response" /\ last'[t].id # 0)
                => /\ Len(thread_data'[t].task_queue) = Len(task_queue(t)) - 1
                   /\ Len(sent'[t]) = Len(sent[t]) + 1]_vars
    /\ [](\A t \in Threads :
            (last[t].op = "process_response" /\ last[t].id = 0 /\ last[t].kind = "return")
                => /\ task_queue(t) = <<>>
                   /\ Cardinality(HookCalls(t, last[t].f))
                        = Cardinality(QueuedAtHook(t, last[t].f)))
    /\ \A t \in Threads : []<>(pc[t] # "response")

\* C17 witness: process_response has returned after two transport calls that
\* both returned.
C17_Witness ==
    \E t \in Threads :
        /\ last[t].op = "process_response" /\ last[t].id = 0 /\ last[t].kind = "return"
        /\ Cardinality(HookCalls(t, last[t].f)) = 2
        /\ \A i \in HookCalls(t, last[t].f) : sent[t][i].outcome = "AsyncResult"

=============================================================================
